---- MODULE Spec2Model ----
(***************************************************************************)
(* Model of the call-tool handler of gemini-image-mcp (src/src/index.ts).  *)
(*                                                                         *)
(* A tool call runs in two steps, split at its only await: CallTool runs   *)
(* the handler up to `await genModel.generateContent(parts)`, Settle       *)
(* resumes it when the upstream promise resolves or rejects.               *)
(* inFlightPeak records the largest number of calls that were awaiting     *)
(* their upstream call at the same time.                                   *)
(*                                                                         *)
(* Encoding of JavaScript values:                                          *)
(*   - an optional value is Undefined (<<>>) or Def(v) (<<v>>);            *)
(*   - a message or response text is a sequence of chunks, string          *)
(*     concatenation is \o, the empty string is <<>>;                      *)
(*   - image data and MIME types are strings, "" standing for the falsy   *)
(*     values (null, undefined, "") that the code does not distinguish.   *)
(***************************************************************************)
EXTENDS Integers, Sequences, FiniteSets, TLC

VARIABLES pc, name, args, frame, upstreamLog, settled, writeThrew, outcome, fs,
          inFlightPeak

vars == <<pc, name, args, frame, upstreamLog, settled, writeThrew, outcome, fs,
          inFlightPeak>>

-----------------------------------------------------------------------------
\* Bounds of the model

NumCalls == 3
MaxShortLen == 2
MaxParts == 2

Calls == 1..NumCalls

-----------------------------------------------------------------------------
\* Optional values

Undefined == <<>>
Def(v) == <<v>>
IsDef(o) == o # <<>>
Val(o) == o[1]

-----------------------------------------------------------------------------
\* Program constants

MODELS_PRO == "gemini-3-pro-image-preview"
MODELS_FLASH == "gemini-2.5-flash-preview-05-20"
MODELS_LEGACY == "gemini-2.0-flash-exp"
DEFAULT_MODEL == MODELS_PRO

\* maxItems of referenceImages / images in the tool schemas
MaxItems == 14

ToolNames == {"generate_image", "edit_image", "describe_image"}

-----------------------------------------------------------------------------
\* Thrown values, completions, tool results

\* new Error(msg); String(new Error(msg)) is "Error: " + msg
ErrorObj(msg) ==
  [instanceofError |-> TRUE, message |-> msg, string |-> <<"Error: ">> \o msg]

\* a thrown value that is no Error: it has no message, String(value) is str
NonError(str) == [instanceofError |-> FALSE, message |-> <<>>, string |-> str]

NoError == ErrorObj(<<>>)
NoResult == [content |-> <<>>, isError |-> FALSE]

Return(v) == [threw |-> FALSE, error |-> NoError, value |-> v]
Throw(e) == [threw |-> TRUE, error |-> e, value |-> NoResult]
Pending == Return(NoResult)

ImageContent(data, mimeType) ==
  [type |-> "image", data |-> data, mimeType |-> mimeType, text |-> <<>>]

TextContent(text) ==
  [type |-> "text", data |-> "", mimeType |-> "", text |-> text]

\* error instanceof Error ? error.message : String(error)
MessageOf(error) == IF error.instanceofError THEN error.message ELSE error.string

\* A mutant of the catch clause: the error result is not flagged.
catchClauseUnflagged(completion) ==
  IF completion.threw
    THEN Return([content |-> <<TextContent(<<"Error: ">> \o MessageOf(completion.error))>>,
                 isError |-> FALSE])
    ELSE completion

\* try { switch ... } catch (error) { return { content: [...], isError: true } }
catchClause(completion) ==
  IF completion.threw
    THEN Return([content |-> <<TextContent(<<"Error: ">> \o MessageOf(completion.error))>>,
                 isError |-> TRUE])
    ELSE completion

-----------------------------------------------------------------------------
\* Locals of one invocation, after destructuring with defaults

NoFrame ==
  [prompt |-> Undefined, model |-> "", aspectRatio |-> "", imageSize |-> "",
   outputPath |-> Undefined, images |-> Undefined]

Default(o, d) == IF IsDef(o) THEN Val(o) ELSE d

generateImageLocals(params) ==
  [prompt |-> params.prompt,
   model |-> Default(params.model, DEFAULT_MODEL),
   aspectRatio |-> Default(params.aspectRatio, "1:1"),
   imageSize |-> Default(params.imageSize, "1K"),
   outputPath |-> params.outputPath,
   images |-> params.referenceImages]

editImageLocals(params) ==
  [prompt |-> params.prompt,
   model |-> Default(params.model, DEFAULT_MODEL),
   aspectRatio |-> "",
   imageSize |-> Default(params.imageSize, "1K"),
   outputPath |-> params.outputPath,
   images |-> params.images]

describeImageLocals(params) ==
  [prompt |-> Def(Default(params.prompt, "Describe this image in detail.")),
   model |-> Default(params.model, MODELS_PRO),
   aspectRatio |-> "",
   imageSize |-> "",
   outputPath |-> Undefined,
   images |-> params.images]

-----------------------------------------------------------------------------
\* The request handed to the upstream model

generateImageConfig(l) ==
  IF l.model = MODELS_PRO
    THEN [responseModalities |-> <<"IMAGE", "TEXT">>,
          imageConfig |-> Def([aspectRatio |-> Def(l.aspectRatio),
                               imageSize |-> Def(l.imageSize)]),
          aspectRatio |-> Undefined]
    ELSE [responseModalities |-> <<"IMAGE", "TEXT">>,
          imageConfig |-> Undefined,
          aspectRatio |-> Def(l.aspectRatio)]

editImageConfig(l) ==
  IF l.model = MODELS_PRO
    THEN [responseModalities |-> <<"IMAGE", "TEXT">>,
          imageConfig |-> Def([aspectRatio |-> Undefined,
                               imageSize |-> Def(l.imageSize)]),
          aspectRatio |-> Undefined]
    ELSE [responseModalities |-> <<"IMAGE", "TEXT">>,
          imageConfig |-> Undefined,
          aspectRatio |-> Undefined]

InlinePart(img) ==
  [inlineData |-> Def([mimeType |-> img.mimeType, data |-> img.data]),
   text |-> Undefined]

TextPart(prompt) == [inlineData |-> Undefined, text |-> prompt]

\* for (const img of referenceImages) parts.push({ inlineData: ... })
RECURSIVE pushAll(_, _, _)
pushAll(parts, imgs, i) ==
  IF i > Len(imgs) THEN parts
  ELSE pushAll(Append(parts, InlinePart(imgs[i])), imgs, i + 1)

\* A mutant of the parts builder: the prompt is put before the images.
generateImagePartsPromptFirst(l) ==
  <<TextPart(l.prompt)>> \o
    (IF IsDef(l.images) /\ Len(Val(l.images)) > 0
       THEN pushAll(<<>>, Val(l.images), 1) ELSE <<>>)

generateImageParts(l) ==
  LET parts == IF IsDef(l.images) /\ Len(Val(l.images)) > 0
                 THEN pushAll(<<>>, Val(l.images), 1)
                 ELSE <<>>
  IN Append(parts, TextPart(l.prompt))

\* images.map((img) => ({ inlineData: ... })); parts.push({ text: prompt })
mapImagesParts(images, prompt) ==
  Append([i \in 1..Len(images) |-> InlinePart(images[i])], TextPart(prompt))

\* A mutant of the upstream call: a failed call is attempted again at once.
generateContentTwice(request) == <<request, request>>

\* await genModel.generateContent(parts): the requests put on the wire
generateContent(request) == <<request>>

Started(l, requests) ==
  [threw |-> FALSE, error |-> NoError, sent |-> requests, frame |-> l]

Failed(e) == [threw |-> TRUE, error |-> e, sent |-> <<>>, frame |-> NoFrame]

DestructureError ==
  ErrorObj(<<"Cannot destructure property 'prompt' of 'params' as it is undefined.">>)

MapError ==
  ErrorObj(<<"Cannot read properties of undefined (reading 'map')">>)

\* generateImage, up to the await
generateImageCall(params) ==
  IF ~IsDef(params) THEN Failed(DestructureError)
  ELSE LET l == generateImageLocals(Val(params)) IN
       Started(l, generateContent([model |-> l.model,
                                   generationConfig |-> Def(generateImageConfig(l)),
                                   parts |-> generateImageParts(l)]))

\* editImage, up to the await
editImageCall(params) ==
  IF ~IsDef(params) THEN Failed(DestructureError)
  ELSE LET l == editImageLocals(Val(params)) IN
       IF ~IsDef(l.images) THEN Failed(MapError)
       ELSE Started(l, generateContent([model |-> l.model,
                                        generationConfig |-> Def(editImageConfig(l)),
                                        parts |-> mapImagesParts(Val(l.images), l.prompt)]))

\* describeImage, up to the await
describeImageCall(params) ==
  IF ~IsDef(params) THEN Failed(DestructureError)
  ELSE LET l == describeImageLocals(Val(params)) IN
       IF ~IsDef(l.images) THEN Failed(MapError)
       ELSE Started(l, generateContent([model |-> l.model,
                                        generationConfig |-> Undefined,
                                        parts |-> mapImagesParts(Val(l.images), l.prompt)]))

\* switch (name) of the call-tool handler, up to the await
switchName(n, a) ==
  CASE n = "generate_image" -> generateImageCall(a)
    [] n = "edit_image" -> editImageCall(a)
    [] n = "describe_image" -> describeImageCall(a)
    [] OTHER -> Failed(ErrorObj(<<"Unknown tool: ", n>>))

-----------------------------------------------------------------------------
\* The file system: the directories that exist and the bytes of each file

Dirname(p) == IF p = "out/a.png" THEN "out" ELSE "."

\* Buffer.from(imageData, "base64")
Base64Decode(d) ==
  CASE d = "QQ==" -> "A"
    [] d = "Qg==" -> "B"
    [] OTHER -> ""

FsError(op) == ErrorObj(<<"EACCES: permission denied, ", op>>)

\* if (dir && !fs.existsSync(dir)) fs.mkdirSync(dir); fs.writeFileSync(...)
\* fault names the file-system call that fails, if it is made.
saveToFile(fsState, outputPath, imageData, fault) ==
  LET dir == Dirname(outputPath)
      mk == dir # "" /\ dir \notin fsState.dirs
      made == IF mk THEN [fsState EXCEPT !.dirs = @ \cup {dir}] ELSE fsState
  IN IF mk /\ fault = "mkdir"
       THEN [threw |-> TRUE, error |-> FsError("mkdir"), fs |-> fsState]
     ELSE IF fault = "write"
       THEN [threw |-> TRUE, error |-> FsError("open"), fs |-> made]
     ELSE [threw |-> FALSE, error |-> NoError,
           fs |-> [made EXCEPT !.files[outputPath] = Base64Decode(imageData)]]

Resumed(completion, fsState, threw) ==
  [completion |-> completion, fs |-> fsState, writeThrew |-> threw]

\* A mutant of the save step: a failed write is swallowed.
saveThenReturnBestEffort(l, fsState, fault, result) ==
  IF IsDef(l.outputPath) /\ Val(l.outputPath) # ""
    THEN LET save == saveToFile(fsState, Val(l.outputPath), result.content[1].data, fault)
         IN Resumed(Return(result), save.fs, save.threw)
    ELSE Resumed(Return(result), fsState, FALSE)

\* if (outputPath) { ... writeFileSync ... } return { content: [...] }
saveThenReturn(l, fsState, fault, result) ==
  IF IsDef(l.outputPath) /\ Val(l.outputPath) # ""
    THEN LET save == saveToFile(fsState, Val(l.outputPath), result.content[1].data, fault)
         IN Resumed(IF save.threw THEN Throw(save.error) ELSE Return(result),
                    save.fs, save.threw)
    ELSE Resumed(Return(result), fsState, FALSE)

-----------------------------------------------------------------------------
\* Scanning the parts of the first candidate

ScanInit == [imageData |-> "", mimeType |-> "image/png", textResponse |-> <<>>]

\* A mutant of the image assignment: the first inline part is kept.
takeInlineFirst(acc, inlineData) ==
  IF acc.imageData # "" THEN acc
  ELSE [acc EXCEPT !.imageData = inlineData.data,
                   !.mimeType = IF inlineData.mimeType # ""
                                  THEN inlineData.mimeType ELSE "image/png"]

\* imageData = part.inlineData.data; mimeType = part.inlineData.mimeType || "image/png"
takeInline(acc, inlineData) ==
  [acc EXCEPT !.imageData = inlineData.data,
              !.mimeType = IF inlineData.mimeType # ""
                             THEN inlineData.mimeType ELSE "image/png"]

\* A mutant of the text accumulation: the text is overwritten, not appended.
addTextOverwrite(acc, text) == [acc EXCEPT !.textResponse = text]

\* textResponse += part.text
addText(acc, text) == [acc EXCEPT !.textResponse = @ \o text]

\* the loop of generateImage over content.parts
RECURSIVE generateImageScan(_, _, _)
generateImageScan(parts, i, acc) ==
  IF i > Len(parts) THEN acc
  ELSE LET part == parts[i]
           a1 == IF IsDef(part.inlineData)
                   THEN takeInline(acc, Val(part.inlineData)) ELSE acc
           a2 == IF part.text # <<>> THEN addText(a1, part.text) ELSE a1
       IN generateImageScan(parts, i + 1, a2)

\* the loop of editImage over content.parts
RECURSIVE editImageScan(_, _, _)
editImageScan(parts, i, acc) ==
  IF i > Len(parts) THEN acc
  ELSE LET part == parts[i]
           a1 == IF IsDef(part.inlineData)
                   THEN takeInline(acc, Val(part.inlineData)) ELSE acc
       IN editImageScan(parts, i + 1, a1)

\* !candidates || candidates.length === 0
noCandidates(response) ==
  ~IsDef(response.candidates) \/ Len(Val(response.candidates)) = 0

\* A mutant of the content test: an empty parts sequence counts as no content.
noContentOrEmpty(content) ==
  \/ ~IsDef(content)
  \/ ~IsDef(Val(content).parts)
  \/ Len(Val(Val(content).parts)) = 0

\* !content || !content.parts
noContent(content) == ~IsDef(content) \/ ~IsDef(Val(content).parts)

-----------------------------------------------------------------------------
\* The handlers, from the await on

\* generateImage, from the await on
generateImageResume(l, settlement, fsState, fault) ==
  IF settlement.rejected THEN Resumed(Throw(settlement.error), fsState, FALSE)
  ELSE IF noCandidates(settlement.response)
    THEN Resumed(Throw(ErrorObj(<<"No response generated">>)), fsState, FALSE)
  ELSE LET content == Val(settlement.response.candidates)[1].content IN
    IF noContent(content)
      THEN Resumed(Throw(ErrorObj(<<"No content in response">>)), fsState, FALSE)
    ELSE LET scan == generateImageScan(Val(Val(content).parts), 1, ScanInit) IN
      IF scan.imageData = ""
        THEN Resumed(Throw(ErrorObj(<<"No image generated. Model response: ">>
                                      \o scan.textResponse)), fsState, FALSE)
      ELSE saveThenReturn(l, fsState, fault,
             [content |->
                <<ImageContent(scan.imageData, scan.mimeType),
                  TextContent(
                    IF IsDef(l.outputPath) /\ Val(l.outputPath) # ""
                      THEN <<"Image generated (", l.imageSize, ") and saved to: ",
                             Val(l.outputPath)>>
                      ELSE <<"Image generated successfully (", l.imageSize, ")">>)>>,
              isError |-> FALSE])

\* editImage, from the await on
editImageResume(l, settlement, fsState, fault) ==
  IF settlement.rejected THEN Resumed(Throw(settlement.error), fsState, FALSE)
  ELSE IF noCandidates(settlement.response)
    THEN Resumed(Throw(ErrorObj(<<"No response generated">>)), fsState, FALSE)
  ELSE LET content == Val(settlement.response.candidates)[1].content IN
    IF noContent(content)
      THEN Resumed(Throw(ErrorObj(<<"No content in response">>)), fsState, FALSE)
    ELSE LET scan == editImageScan(Val(Val(content).parts), 1, ScanInit) IN
      IF scan.imageData = ""
        THEN Resumed(Throw(ErrorObj(<<"No edited image generated">>)), fsState, FALSE)
      ELSE saveThenReturn(l, fsState, fault,
             [content |->
                <<ImageContent(scan.imageData, scan.mimeType),
                  TextContent(
                    IF IsDef(l.outputPath) /\ Val(l.outputPath) # ""
                      THEN <<"Image edited (", l.imageSize, ") and saved to: ",
                             Val(l.outputPath)>>
                      ELSE <<"Image edited successfully (", l.imageSize, ")">>)>>,
              isError |-> FALSE])

RECURSIVE joinText(_, _)
joinText(parts, i) ==
  IF i > Len(parts) THEN <<>> ELSE parts[i].text \o joinText(parts, i + 1)

\* response.text() of the upstream client library: the text parts of the
\* first candidate joined, "" without candidates, an error when the prompt
\* was blocked.
responseText(response) ==
  IF ~noCandidates(response)
    THEN LET content == Val(response.candidates)[1].content IN
         Return([content |->
                   <<TextContent(IF noContent(content) THEN <<>>
                                 ELSE joinText(Val(Val(content).parts), 1))>>,
                 isError |-> FALSE])
  ELSE IF response.promptFeedback
    THEN Throw(ErrorObj(<<"Text not available. Response was blocked">>))
  ELSE Return([content |-> <<TextContent(<<>>)>>, isError |-> FALSE])

\* describeImage, from the await on
describeImageResume(l, settlement, fsState, fault) ==
  IF settlement.rejected THEN Resumed(Throw(settlement.error), fsState, FALSE)
  ELSE Resumed(responseText(settlement.response), fsState, FALSE)

\* switch (name) of the call-tool handler, from the await on
switchResume(n, l, settlement, fsState, fault) ==
  CASE n = "generate_image" -> generateImageResume(l, settlement, fsState, fault)
    [] n = "edit_image" -> editImageResume(l, settlement, fsState, fault)
    [] OTHER -> describeImageResume(l, settlement, fsState, fault)

-----------------------------------------------------------------------------
\* Inputs: the tool calls a host can make

Prompts == {"draw a cat", "make it blue"}

ImgA == [data |-> "QQ==", mimeType |-> "image/png"]
ImgB == [data |-> "Qg==", mimeType |-> "image/jpeg"]

\* every image sequence up to MaxShortLen, and one of MaxItems and of
\* MaxItems + 1 images
LongSeq(n) == [i \in 1..n |-> IF i % 2 = 1 THEN ImgA ELSE ImgB]
ImageSeqs ==
  UNION {[1..n -> {ImgA, ImgB}] : n \in 0..MaxShortLen}
    \cup {LongSeq(MaxItems), LongSeq(MaxItems + 1)}

NoArgs ==
  [prompt |-> Undefined, model |-> Undefined, aspectRatio |-> Undefined,
   imageSize |-> Undefined, outputPath |-> Undefined,
   referenceImages |-> Undefined, images |-> Undefined]

OutputPaths == {Undefined, Def("out/a.png"), Def("b.png")}
Paths == {"out/a.png", "b.png"}

GenerateArgs ==
  {[NoArgs EXCEPT !.prompt = Def(p), !.model = m, !.aspectRatio = ar,
                  !.imageSize = sz, !.outputPath = op, !.referenceImages = ri] :
     p \in {"draw a cat"}, m \in {Undefined, Def(MODELS_LEGACY)},
     ar \in {Undefined, Def("16:9")}, sz \in {Undefined, Def("2K")},
     op \in OutputPaths, ri \in {Undefined} \cup {Def(q) : q \in ImageSeqs}}

EditArgs ==
  {[NoArgs EXCEPT !.prompt = Def(p), !.model = m, !.imageSize = sz,
                  !.outputPath = op, !.images = im] :
     p \in {"make it blue"}, m \in {Undefined, Def(MODELS_LEGACY)},
     sz \in {Undefined, Def("2K")}, op \in OutputPaths,
     im \in {Undefined} \cup {Def(q) : q \in ImageSeqs}}

DescribeArgs ==
  {[NoArgs EXCEPT !.prompt = p, !.model = m, !.images = im] :
     p \in {Undefined} \cup {Def(q) : q \in Prompts},
     m \in {Undefined, Def(MODELS_FLASH)},
     im \in {Undefined} \cup {Def(q) : q \in ImageSeqs}}

ToolCall(n, a) == [name |-> n, args |-> a]

ToolCalls ==
  {ToolCall("generate_image", Def(a)) : a \in GenerateArgs}
    \cup {ToolCall("edit_image", Def(a)) : a \in EditArgs}
    \cup {ToolCall("describe_image", Def(a)) : a \in DescribeArgs}
    \cup {ToolCall(n, Undefined) : n \in ToolNames \cup {"resize_image"}}
    \cup {ToolCall("resize_image", Def(NoArgs))}

\* the tool calls of the interleaved runs
ConcToolCalls ==
  {ToolCall("generate_image", Def([NoArgs EXCEPT !.prompt = Def("draw a cat")])),
   ToolCall("generate_image",
            Def([NoArgs EXCEPT !.prompt = Def("make it blue"),
                               !.imageSize = Def("2K"),
                               !.outputPath = Def("b.png")])),
   ToolCall("edit_image",
            Def([NoArgs EXCEPT !.prompt = Def("make it blue"),
                               !.images = Def(<<ImgA>>),
                               !.outputPath = Def("b.png")]))}

-----------------------------------------------------------------------------
\* Inputs: what the upstream call can settle to

RInline(data, mimeType) ==
  [inlineData |-> Def([data |-> data, mimeType |-> mimeType]), text |-> <<>>]

RText(t) == [inlineData |-> Undefined, text |-> <<t>>]

ResponseParts ==
  {RInline("QQ==", "image/png"), RInline("Qg==", ""), RInline("", "image/jpeg"),
   RText("Sorry, "), RText("I cannot.")}

PartSeqs == UNION {[1..n -> ResponseParts] : n \in 0..MaxParts}

Candidate(content) == [content |-> content]

Contents ==
  {Undefined, Def([parts |-> Undefined])}
    \cup {Def([parts |-> Def(ps)]) : ps \in PartSeqs}

SecondCandidate ==
  Candidate(Def([parts |-> Def(<<RInline("Qg==", "image/jpeg"), RText("second")>>)]))

CandidateLists ==
  {<<>>} \cup {<<Candidate(ct)>> : ct \in Contents}
    \cup {<<Candidate(ct), SecondCandidate>> : ct \in Contents}

Resolved(cands, blocked) ==
  [rejected |-> FALSE, error |-> NoError,
   response |-> [candidates |-> cands, promptFeedback |-> blocked]]

Rejected(e) ==
  [rejected |-> TRUE, error |-> e,
   response |-> [candidates |-> Undefined, promptFeedback |-> FALSE]]

Settlements ==
  {Rejected(ErrorObj(<<"fetch failed">>)), Rejected(NonError(<<"quota exceeded">>)),
   Resolved(Undefined, TRUE), Resolved(Undefined, FALSE)}
    \cup {Resolved(Def(cl), FALSE) : cl \in CandidateLists}

ConcSettlements ==
  {Resolved(Def(<<Candidate(Def([parts |->
      Def(<<RText("Here: "), RInline("QQ==", "image/png")>>)]))>>), FALSE),
   Resolved(Def(<<Candidate(Def([parts |->
      Def(<<RInline("Qg==", "")>>)]))>>), FALSE)}

Faults == {"none", "mkdir", "write"}

-----------------------------------------------------------------------------
\* The state machine

\* A mutant of the activation record: the locals live in one shared slot.
SharedFrame(c) == 1

\* the activation record of invocation c: its locals are its own
OwnFrame(c) == c

Init ==
  /\ pc = [c \in Calls |-> "idle"]
  /\ name = [c \in Calls |-> ""]
  /\ args = [c \in Calls |-> Undefined]
  /\ frame = [c \in Calls |-> NoFrame]
  /\ upstreamLog = [c \in Calls |-> <<>>]
  /\ settled = [c \in Calls |-> Undefined]
  /\ writeThrew = [c \in Calls |-> FALSE]
  /\ outcome = [c \in Calls |-> Pending]
  /\ fs = [dirs |-> {"."}, files |-> [p \in Paths |-> ""]]
  /\ inFlightPeak = 0

\* The host calls a tool: the handler runs up to the await, or to its end
\* when it fails before.
CallTool(c, calls) ==
  /\ pc[c] = "idle"
  /\ \E call \in calls :
       LET r == switchName(call.name, call.args) IN
         /\ name' = [name EXCEPT ![c] = call.name]
         /\ args' = [args EXCEPT ![c] = call.args]
         /\ upstreamLog' = [upstreamLog EXCEPT ![c] = @ \o r.sent]
         /\ IF r.threw
              THEN /\ outcome' = [outcome EXCEPT ![c] = catchClause(Throw(r.error))]
                   /\ pc' = [pc EXCEPT ![c] = "done"]
                   /\ UNCHANGED <<frame, inFlightPeak>>
              ELSE /\ frame' = [frame EXCEPT ![OwnFrame(c)] = r.frame]
                   /\ pc' = [pc EXCEPT ![c] = "awaiting"]
                   /\ outcome' = outcome
                   /\ inFlightPeak' =
                        LET n == Cardinality({d \in Calls : pc[d] = "awaiting"}) + 1
                        IN IF n > inFlightPeak THEN n ELSE inFlightPeak
  /\ UNCHANGED <<settled, writeThrew, fs>>

\* The upstream call of c settles: the handler resumes and runs to its end.
Settle(c, settlements, faults) ==
  /\ pc[c] = "awaiting"
  /\ \E s \in settlements, fault \in faults :
       LET r == switchResume(name[c], frame[OwnFrame(c)], s, fs, fault) IN
         /\ settled' = [settled EXCEPT ![c] = Def(s)]
         /\ writeThrew' = [writeThrew EXCEPT ![c] = r.writeThrew]
         /\ fs' = r.fs
         /\ outcome' = [outcome EXCEPT ![c] = catchClause(r.completion)]
         /\ pc' = [pc EXCEPT ![c] = "done"]
  /\ UNCHANGED <<name, args, frame, upstreamLog, inFlightPeak>>

\* one tool call at a time, over the full inputs
Next == CallTool(1, ToolCalls) \/ Settle(1, Settlements, Faults)

Spec == Init /\ [][Next]_vars

\* tool calls in flight together
NextConc ==
  \E c \in Calls :
    CallTool(c, ConcToolCalls) \/ Settle(c, ConcSettlements, {"none", "write"})

SpecConc == Init /\ [][NextConc]_vars

-----------------------------------------------------------------------------
\* Vocabulary of the properties, stated on the calls' inputs and results

ImageTools == {"generate_image", "edit_image"}

Done(c) == pc[c] = "done"

Result(c) == outcome[c].value

IsErrorResult(r, msg) ==
  /\ r.isError
  /\ Len(r.content) = 1
  /\ r.content[1].type = "text"
  /\ r.content[1].text = <<"Error: ">> \o msg

IsErrorShaped(r) ==
  /\ r.isError
  /\ Len(r.content) = 1
  /\ r.content[1].type = "text"
  /\ Len(r.content[1].text) >= 1
  /\ r.content[1].text[1] = "Error: "

IsImageResult(r) ==
  /\ ~r.isError
  /\ Len(r.content) = 2
  /\ r.content[1].type = "image"
  /\ r.content[2].type = "text"

WasRejected(c) == IsDef(settled[c]) /\ Val(settled[c]).rejected

WasResolved(c) == IsDef(settled[c]) /\ ~Val(settled[c]).rejected

CandidatesOf(c) == Val(settled[c]).response.candidates

HasCandidate(c) ==
  WasResolved(c) /\ IsDef(CandidatesOf(c)) /\ Len(Val(CandidatesOf(c))) >= 1

FirstContent(c) == Val(CandidatesOf(c))[1].content

HasParts(c) ==
  HasCandidate(c) /\ IsDef(FirstContent(c)) /\ IsDef(Val(FirstContent(c)).parts)

FirstParts(c) == Val(Val(FirstContent(c)).parts)

IsInline(part) == IsDef(part.inlineData)

NoInline(parts) == \A i \in 1..Len(parts) : ~IsInline(parts[i])

RECURSIVE AllText(_)
AllText(parts) ==
  IF parts = <<>> THEN <<>> ELSE Head(parts).text \o AllText(Tail(parts))

IsInfix(s, t) ==
  \E i \in 0..(Len(t) - Len(s)) : SubSeq(t, i + 1, i + Len(s)) = s

OutputPathGiven(c) == IsDef(args[c]) /\ IsDef(Val(args[c]).outputPath)

\* the images the caller supplied to call c, in the caller's order
CallerImages(c) ==
  IF name[c] = "generate_image"
    THEN Default(Val(args[c]).referenceImages, <<>>)
    ELSE Val(Val(args[c]).images)

\* the prompt of call c, the default one of describe_image included
CallerPrompt(c) ==
  IF name[c] = "describe_image" /\ ~IsDef(Val(args[c]).prompt)
    THEN Def("Describe this image in detail.")
    ELSE Val(args[c]).prompt

\* the request satisfies the input schema of its tool
ValidRequest(c) ==
  /\ name[c] \in ToolNames
  /\ IsDef(args[c])
  /\ LET a == Val(args[c]) IN
       CASE name[c] = "generate_image" ->
              /\ IsDef(a.prompt)
              /\ IsDef(a.referenceImages) => Len(Val(a.referenceImages)) <= MaxItems
         [] name[c] = "edit_image" ->
              /\ IsDef(a.prompt)
              /\ IsDef(a.images)
              /\ Len(Val(a.images)) \in 1..MaxItems
         [] OTHER -> IsDef(a.images) /\ Len(Val(a.images)) >= 1

-----------------------------------------------------------------------------
\* C1: every failure of a tool call (unknown tool name, a failure before the
\* upstream call, an upstream failure, missing candidates, content or image,
\* a failure while saving the file) is returned by the call-tool handler as
\* a result with isError = true whose content is one text part carrying the
\* failure message; the handler never throws to the host.
C1_FailuresReturnedAsErrorResults ==
  \A c \in Calls : Done(c) =>
    /\ ~outcome[c].threw
    /\ Result(c).isError => IsErrorShaped(Result(c))
    /\ name[c] \notin ToolNames =>
         IsErrorResult(Result(c), <<"Unknown tool: ", name[c]>>)
    /\ name[c] \in ToolNames /\ ~IsDef(settled[c]) => IsErrorShaped(Result(c))
    /\ WasRejected(c) =>
         IsErrorResult(Result(c),
                       IF Val(settled[c]).error.instanceofError
                         THEN Val(settled[c]).error.message
                         ELSE Val(settled[c]).error.string)
    /\ name[c] \in ImageTools /\ WasResolved(c) /\ ~HasCandidate(c) =>
         IsErrorResult(Result(c), <<"No response generated">>)
    /\ name[c] \in ImageTools /\ HasCandidate(c) /\ ~HasParts(c) =>
         IsErrorResult(Result(c), <<"No content in response">>)
    /\ name[c] \in ImageTools /\ HasParts(c) /\ NoInline(FirstParts(c)) =>
         IsErrorShaped(Result(c))
    /\ writeThrew[c] => IsErrorShaped(Result(c))

C1_Witness ==
  \E c \in Calls :
    /\ Done(c)
    /\ WasRejected(c)
    /\ ~Val(settled[c]).error.instanceofError
    /\ Result(c).isError

-----------------------------------------------------------------------------
-----------------------------------------------------------------------------
\* C3, as claimed: generate_image with more than MaxItems referenceImages
\* ends in an error result and is not forwarded to the upstream model; with
\* MaxItems or fewer it is forwarded.
C3_ReferenceImagesBounded ==
  \A c \in Calls :
    /\ pc[c] # "idle"
    /\ name[c] = "generate_image"
    /\ IsDef(args[c])
    /\ IsDef(Val(args[c]).referenceImages)
    => IF Len(Val(Val(args[c]).referenceImages)) > MaxItems
         THEN Len(upstreamLog[c]) = 0 /\ (Done(c) => Result(c).isError)
         ELSE Len(upstreamLog[c]) = 1

-----------------------------------------------------------------------------
\* C4, as claimed: edit_image with images = [] yields an error result and
\* the upstream model is never invoked for that call.
C4_EmptyImagesRejected ==
  \A c \in Calls :
    /\ pc[c] # "idle"
    /\ name[c] = "edit_image"
    /\ IsDef(args[c])
    /\ Val(args[c]).images = Def(<<>>)
    => Len(upstreamLog[c]) = 0 /\ (Done(c) => Result(c).isError)

-----------------------------------------------------------------------------
\* C5, as claimed: for generate_image and edit_image, when the parts of the
\* first candidate hold no inline-media part, the call fails with an error
\* whose message includes the text of all text parts in their order.
C5_NoImageErrorIncludesText ==
  \A c \in Calls :
    Done(c) /\ name[c] \in ImageTools /\ HasParts(c) /\ NoInline(FirstParts(c)) =>
      /\ IsErrorShaped(Result(c))
      /\ IsInfix(AllText(FirstParts(c)), Result(c).content[1].text)

\* C5, amended: generate_image fails with "No image generated. Model
\* response: " followed by the text of all text parts in their order;
\* edit_image fails with "No edited image generated" and none of the text.
C5_NoImageError ==
  \A c \in Calls :
    Done(c) /\ name[c] \in ImageTools /\ HasParts(c) /\ NoInline(FirstParts(c)) =>
      IF name[c] = "generate_image"
        THEN IsErrorResult(Result(c), <<"No image generated. Model response: ">>
                                         \o AllText(FirstParts(c)))
        ELSE IsErrorResult(Result(c), <<"No edited image generated">>)

C5_Witness ==
  \E c \in Calls :
    /\ Done(c)
    /\ name[c] = "generate_image"
    /\ HasParts(c)
    /\ NoInline(FirstParts(c))
    /\ Len(FirstParts(c)) = 2
    /\ FirstParts(c)[1].text # FirstParts(c)[2].text
    /\ Result(c).isError

-----------------------------------------------------------------------------
\* C6, as claimed: for generate_image and edit_image, when the response has
\* a candidate and the first one has no content parts (content absent, parts
\* absent, or an empty parts sequence), the call fails with "No content in
\* response".
C6_NoContentIncludingEmptyParts ==
  \A c \in Calls :
    /\ Done(c)
    /\ name[c] \in ImageTools
    /\ HasCandidate(c)
    /\ ~HasParts(c) \/ FirstParts(c) = <<>>
    => IsErrorResult(Result(c), <<"No content in response">>)

\* C6, amended: content absent or parts absent gives "No content in
\* response", whatever else the response holds; an empty parts sequence
\* gives the no-image error of the tool.
C6_NoContent ==
  \A c \in Calls :
    Done(c) /\ name[c] \in ImageTools /\ HasCandidate(c) =>
      /\ ~HasParts(c) => IsErrorResult(Result(c), <<"No content in response">>)
      /\ HasParts(c) /\ FirstParts(c) = <<>> =>
           IF name[c] = "generate_image"
             THEN IsErrorResult(Result(c), <<"No image generated. Model response: ">>)
             ELSE IsErrorResult(Result(c), <<"No edited image generated">>)

C6_Witness ==
  \E c \in Calls :
    /\ Done(c)
    /\ name[c] = "generate_image"
    /\ HasParts(c)
    /\ FirstParts(c) = <<>>
    /\ Result(c).isError

-----------------------------------------------------------------------------
\* C7: for generate_image and edit_image, the image part of a result carries
\* the data of the last inline-media part of the first candidate and its
\* MIME type (image/png when that part has none); a response whose last
\* inline-media part has data gives such a result unless the save fails.
C7_LastInlinePartWins ==
  \A c \in Calls :
    Done(c) /\ name[c] \in ImageTools =>
      /\ ~Result(c).isError =>
           /\ HasParts(c)
           /\ IsImageResult(Result(c))
           /\ \E i \in 1..Len(FirstParts(c)) :
                /\ IsInline(FirstParts(c)[i])
                /\ \A j \in (i + 1)..Len(FirstParts(c)) : ~IsInline(FirstParts(c)[j])
                /\ Result(c).content[1].data = Val(FirstParts(c)[i].inlineData).data
                /\ Result(c).content[1].mimeType =
                     IF Val(FirstParts(c)[i].inlineData).mimeType = ""
                       THEN "image/png"
                       ELSE Val(FirstParts(c)[i].inlineData).mimeType
      /\ /\ HasParts(c)
         /\ ~writeThrew[c]
         /\ \E i \in 1..Len(FirstParts(c)) :
              /\ IsInline(FirstParts(c)[i])
              /\ Val(FirstParts(c)[i].inlineData).data # ""
              /\ \A j \in (i + 1)..Len(FirstParts(c)) : ~IsInline(FirstParts(c)[j])
         => IsImageResult(Result(c))

C7_Witness ==
  \E c \in Calls :
    /\ Done(c)
    /\ name[c] = "generate_image"
    /\ HasParts(c)
    /\ Len(FirstParts(c)) = 2
    /\ FirstParts(c)[1] = RInline("QQ==", "image/png")
    /\ FirstParts(c)[2] = RInline("Qg==", "")
    /\ IsImageResult(Result(c))
    /\ Result(c).content[1].data = "Qg=="
    /\ Result(c).content[1].mimeType = "image/png"

-----------------------------------------------------------------------------
\* C8: the content sequence sent upstream is the caller's images as inline
\* parts, in the caller's order, with the same data and MIME type, followed
\* by one text part holding the prompt as the last element.
C8_PartsAreImagesThenPrompt ==
  \A c \in Calls : \A k \in 1..Len(upstreamLog[c]) :
    LET parts == upstreamLog[c][k].parts
        imgs == CallerImages(c)
    IN /\ Len(parts) = Len(imgs) + 1
       /\ \A i \in 1..Len(imgs) :
            /\ parts[i].inlineData =
                 Def([mimeType |-> imgs[i].mimeType, data |-> imgs[i].data])
            /\ parts[i].text = Undefined
       /\ parts[Len(parts)].inlineData = Undefined
       /\ parts[Len(parts)].text = CallerPrompt(c)

C8_Witness ==
  \E c \in Calls :
    /\ name[c] = "generate_image"
    /\ Len(upstreamLog[c]) = 1
    /\ Val(args[c]).referenceImages = Def(<<ImgB, ImgA>>)
    /\ Len(upstreamLog[c][1].parts) = 3

-----------------------------------------------------------------------------
\* C9: a tool call issues at most one upstream call, exactly one when the
\* request is valid, none when the tool name is unknown, and no second one
\* after an upstream failure.
C9_AtMostOneUpstreamCall ==
  \A c \in Calls :
    /\ Len(upstreamLog[c]) <= 1
    /\ pc[c] # "idle" /\ ValidRequest(c) => Len(upstreamLog[c]) = 1
    /\ pc[c] # "idle" /\ name[c] \notin ToolNames => Len(upstreamLog[c]) = 0
    /\ WasRejected(c) => Done(c) /\ Len(upstreamLog[c]) = 1

C9_Witness ==
  \E c \in Calls :
    /\ Done(c)
    /\ ValidRequest(c)
    /\ WasRejected(c)
    /\ Len(upstreamLog[c]) = 1

-----------------------------------------------------------------------------
\* C10: with tool calls in flight together, the result of a call is a
\* function of its own tool name, arguments, upstream response and save
\* outcome: two calls that agree on these return the same result, whatever
\* the other calls were given and however the calls interleave.
SameInputs(c, d) ==
  /\ name[c] = name[d]
  /\ args[c] = args[d]
  /\ settled[c] = settled[d]
  /\ writeThrew[c] = writeThrew[d]

C10_ResultOfOwnInputsOnly ==
  \A c, d \in Calls :
    Done(c) /\ Done(d) /\ SameInputs(c, d) => outcome[c] = outcome[d]

C10_Witness ==
  \E c, d, e \in Calls :
    /\ c # d /\ c # e /\ d # e
    /\ inFlightPeak >= 3
    /\ Done(c) /\ Done(d) /\ Done(e)
    /\ SameInputs(c, d)
    /\ args[e] # args[c]
    /\ settled[e] # settled[c]
    /\ IsImageResult(Result(c))
    /\ IsImageResult(Result(e))

====
